---- MODULE Spec2Model ----
(***************************************************************************)
(* A model of the crowdfunding dapp: the in-memory chain adapter           *)
(* (src/src/services/mockChainAdapter.ts), the campaign row and the        *)
(* service operations on it (src/src/services/supabaseCrowdfundService.ts),*)
(* the wallets table, and the campaign page with its finalize button and   *)
(* balance poll (src/unnamed/part_004).                                    *)
(*                                                                         *)
(* Time is an integer clock; a Date is the integer it holds.  Amounts are  *)
(* bigints, modelled as naturals; the decimal strings the adapter takes    *)
(* and returns are the naturals they denote.                               *)
(***************************************************************************)
EXTENDS Integers, Sequences, FiniteSets, TLC

\* ------------------------------------------------------------- bounds
MaxTime == 2
MaxTotal == 2

MaxBalance == 3
MaxPolls == 4

MaxCampaigns == 2
MaxWallets == 3
MaxFetches == 6

\* ------------------------------------------------------------- input sets
Balances == 0..MaxBalance
Addresses == {"0xd1", "0xd2"}
WalletAddresses == {"0xA", "0xa", "0xb"}
Amounts == {0, 1}
MinPledges == {0, 1}
Goals == {1, 2}
Deadlines == 1..MaxTime
\* backerCount is capped at the number of distinct ledger keys.
MaxBackerCount == Cardinality({"0xa", "0xb"})

Users == {"alice", "bob"}
NoUser == "none"
\* The placeholder createDraftCampaign inserts, and the address derived for the campaign.
PlaceholderAddress == "0x00"
DerivedAddress == "0xd1"
\* currency_address: the default createDraftCampaign inserts, and a token's address.
DefaultCurrency == "0x00"
Currencies == {DefaultCurrency, "0xc1"}

\* The pledge calls that may be in flight together, and the deposit address they
\* pledge to.
Callers == {"c1", "c2"}
PledgeAddress == "0xd1"
NoPledgeCall ==
  [pc |-> "idle", fromAddress |-> "", amountWei |-> 0, minPledgeWei |-> 0, deadlineAt |-> 0,
   result |-> "", seen |-> 0]

\* The polling effect has not run: the page is not mounted.
NoDeps == <<>>

\* A value that is undefined: a field of a patch, the balance of a fetch not yet read.
NoAmount == -1
NoAddress == "undefined"

VARIABLES
  now,            \* the wall clock, read by new Date()
  campaignStates, \* mockChainAdapter.ts: Map<string, MockCampaignState>
  lastOp,         \* the last adapter call: its inputs and what it returned or threw
  campaign,       \* the row of the campaigns table (NoCampaign before it is inserted)
  profile,        \* the identity signed in to the browser (NoUser when signed out)
  page,           \* the campaign page: its campaign and chainState snapshots
  finalizeLog,    \* history: the successful finalize of the campaign's address
  isPolling,          \* the page's polling effect is active
  previousBalanceRef, \* useRef("0"): the balance the last successful poll stored
  walletBalance,      \* the balance the page displays
  polls,              \* history: the number of polls made since activation
  samples,            \* history: the balances the successful polls sampled, in order
  toasts,             \* the "New pledge received!" notifications: sample index and delta
  refreshes,          \* the number of fetchData calls the polls made
  failedAt,           \* history: how many polls had succeeded when a poll last failed
  pledged,            \* history: the accepted pledges summed per address and account
  calls,              \* the pledge calls of the adapter that are in simulateLatency
  campaignIndexSeq,   \* the last value the campaign_index SERIAL gave out
  draft,              \* the createDraftCampaign call in flight: its position and its row
  wallets,            \* the wallets table: the rows of the signed-in user
  primaryCalls,       \* the setPrimaryWallet calls in flight, one per browser tab
  usdcBalance,        \* the USDC balance of the deposit address on the chain
  increases,          \* history: the number of strict increases of usdcBalance
  inflight,           \* the getWalletUsdcBalance fetches of pollBalance in flight
  pollingRef,         \* pollingRef.current: whether an interval timer is set
  timers,             \* the interval timers of the page that were set and not cleared
  effectDeps          \* the dependencies the polling effect last ran with

chainVars == <<now, campaignStates, lastOp>>
lifeVars == <<campaign, profile, page>>
pollVars == <<isPolling, previousBalanceRef, walletBalance, polls, samples, toasts, refreshes,
              failedAt>>
rowVars == <<campaignIndexSeq, draft>>
walletVars == <<wallets, primaryCalls>>
fetchVars == <<usdcBalance, increases, inflight, pollingRef, timers, effectDeps>>
sideVars == <<rowVars, walletVars, fetchVars>>
vars == <<now, campaignStates, lastOp, campaign, profile, page, finalizeLog,
          isPolling, previousBalanceRef, walletBalance, polls, samples, toasts, refreshes,
          failedAt,
          pledged, calls, campaignIndexSeq, draft, wallets, primaryCalls,
          usdcBalance, increases, inflight, pollingRef, timers, effectDeps>>

\* ------------------------------------------------------------- adapter helpers

\* String.prototype.toLowerCase on the wallet addresses of the model.
ToLowerCase(s) == CASE s = "0xA" -> "0xa"
                    [] s = "0xB" -> "0xb"
                    [] OTHER -> s

EmptyContributions == [k \in {} |-> 0]

\* The state getOrCreateState stores for an address it has not seen.
NewMockCampaignState ==
  [totalRaisedWei |-> 0, backerCount |-> 0,
   contributions |-> EmptyContributions, isFinalized |-> FALSE]

\* A faulty variant: a fresh state is stored whether or not the address has one.
getOrCreateStateFresh(cs, address) ==
  [a \in DOMAIN cs \cup {address} |->
     IF a = address THEN NewMockCampaignState ELSE cs[a]]

\* campaignStates after getOrCreateState(address): the entry is created when missing.
getOrCreateState(cs, address) ==
  IF address \in DOMAIN cs THEN cs ELSE cs @@ (address :> NewMockCampaignState)

\* contributions.get(key) ?? BigInt(0)
ContributionOf(state, key) ==
  IF key \in DOMAIN state.contributions THEN state.contributions[key] ELSE 0

\* A faulty variant: the deadline is looked at before the finalized flag.
deriveStatusDeadlineFirst(totalRaisedWei, goalAmountWei, deadlineAt, isFinalized) ==
  IF now < deadlineAt THEN "LIVE"
  ELSE IF isFinalized THEN "FINALIZED"
  ELSE IF totalRaisedWei >= goalAmountWei THEN "SUCCESSFUL"
  ELSE "FAILED"

\* A faulty variant: the goal threshold is exclusive.
deriveStatusStrictGoal(totalRaisedWei, goalAmountWei, deadlineAt, isFinalized) ==
  IF isFinalized THEN "FINALIZED"
  ELSE IF now < deadlineAt THEN "LIVE"
  ELSE IF totalRaisedWei > goalAmountWei THEN "SUCCESSFUL"
  ELSE "FAILED"

deriveStatus(totalRaisedWei, goalAmountWei, deadlineAt, isFinalized) ==
  IF isFinalized THEN "FINALIZED"
  ELSE IF now < deadlineAt THEN "LIVE"
  ELSE IF totalRaisedWei >= goalAmountWei THEN "SUCCESSFUL"
  ELSE "FAILED"

\* What getOnchainCampaignState returns for a stored state.
OnchainCampaignState(state, goalAmountWei, deadlineAt) ==
  [totalRaisedWei |-> state.totalRaisedWei,
   status |-> deriveStatus(state.totalRaisedWei, goalAmountWei, deadlineAt, state.isFinalized),
   isFinalized |-> state.isFinalized,
   backerCount |-> state.backerCount]

NoOut == [totalRaisedWei |-> 0, status |-> "NONE", isFinalized |-> FALSE, backerCount |-> 0]

\* A record of one adapter call: goal and deadline are getState's inputs (0 otherwise),
\* wallet is getUserContribution's userWalletAddress ("" otherwise).
Op(op, address, result, out) ==
  [op |-> op, address |-> address, goal |-> 0, deadline |-> 0, wallet |-> "",
   result |-> result, out |-> out]

\* A faulty variant: the stored state is rebuilt with the flag at its default.
PledgeStateResetsFlag(state, fromAddress, amountWei) ==
  LET from == ToLowerCase(fromAddress)
      previousContribution == ContributionOf(state, from)
  IN [totalRaisedWei |-> state.totalRaisedWei + amountWei,
      backerCount |-> IF previousContribution = 0
                      THEN state.backerCount + 1 ELSE state.backerCount,
      contributions |->
        [k \in DOMAIN state.contributions \cup {from} |->
           IF k = from THEN previousContribution + amountWei
           ELSE state.contributions[k]],
      isFinalized |-> FALSE]

\* The accepted branch of pledge: the stored state after the ledger update.
PledgeState(state, fromAddress, amountWei) ==
  LET from == ToLowerCase(fromAddress)
      previousContribution == ContributionOf(state, from)
  IN [totalRaisedWei |-> state.totalRaisedWei + amountWei,
      backerCount |-> IF previousContribution = 0
                      THEN state.backerCount + 1 ELSE state.backerCount,
      contributions |->
        [k \in DOMAIN state.contributions \cup {from} |->
           IF k = from THEN previousContribution + amountWei
           ELSE state.contributions[k]],
      isFinalized |-> state.isFinalized]

\* The error pledge throws, or "ok".
PledgeResult(amountWei, minPledgeWei, deadlineAt) ==
  IF amountWei < minPledgeWei THEN "BelowMinPledge"
  ELSE IF now >= deadlineAt THEN "DeadlinePassed"
  ELSE "ok"

\* The successful branch of finalize.
FinalizeState(state) == [state EXCEPT !.isFinalized = TRUE]

\* ------------------------------------------------------------- campaign row and page

NoCampaign ==
  [exists |-> FALSE, campaign_index |-> 0, creator_user_id |-> NoUser,
   campaign_deposit_address |-> "", currency_address |-> "",
   goal_amount_wei |-> 0, min_pledge_wei |-> 0, deadline_at |-> 0, is_published |-> FALSE]

\* No createDraftCampaign call in flight.  derived is history: the campaign indexes
\* the derivation has succeeded for.
NoDraft == [pc |-> "idle", index |-> 0, address |-> "", derived |-> {}]

\* The browser tabs that share the session; each runs one setPrimaryWallet at a time.
Tabs == {"t1", "t2"}

\* No setPrimaryWallet call in flight in a tab.
NoCall == [pc |-> "idle", user |-> NoUser, walletId |-> 0]

\* The getWalletUsdcBalance fetches in flight are counted per balance they carry:
\* NoAmount until the edge function has read the chain, the balance read after.
FetchValues == {NoAmount} \cup Balances

NoFetches == [b \in FetchValues |-> 0]

\* The page as mounted: no campaign, no chain state.
NoPage == [campaign |-> NoCampaign, chainState |-> NoOut]

NoFinalize ==
  [done |-> FALSE, by |-> NoUser, creator |-> NoUser, published |-> FALSE, status |-> "NONE"]

\* History of a finalize that succeeded on the campaign's deposit address: who was
\* signed in, and what the campaign's row and derived status were at that moment.
LogFinalize(cs, address, ok) ==
  IF ok /\ campaign.exists /\ campaign.campaign_deposit_address = address
  THEN [done |-> TRUE, by |-> profile, creator |-> campaign.creator_user_id,
        published |-> campaign.is_published,
        status |-> deriveStatus(cs[address].totalRaisedWei, campaign.goal_amount_wei,
                                campaign.deadline_at, cs[address].isFinalized)]
  ELSE finalizeLog

\* The account a wallet address string denotes: its hex digits in either case.
AccountOf(w) == CASE w \in {"0xA", "0xa"} -> "a"
                  [] w \in {"0xB", "0xb"} -> "b"

Accounts == {AccountOf(w) : w \in WalletAddresses}

\* History of an accepted pledge: the amount is added to what the account has
\* pledged to the address.
Accepted(address, fromAddress, amountWei) ==
  [pledged EXCEPT ![<<address, AccountOf(fromAddress)>>] = @ + amountWei]

\* The sum of f over keys.
RECURSIVE SumOver(_, _)
SumOver(f, keys) ==
  IF keys = {} THEN 0
  ELSE LET k == CHOOSE x \in keys : TRUE IN f[k] + SumOver(f, keys \ {k})

RECURSIVE RaisedOver(_, _)
RaisedOver(cs, keys) ==
  IF keys = {} THEN 0
  ELSE LET k == CHOOSE x \in keys : TRUE
       IN cs[k].totalRaisedWei + RaisedOver(cs, keys \ {k})

\* The raised totals of all addresses together, which the model caps.
RaisedInAll(cs) == RaisedOver(cs, DOMAIN cs)

\* ------------------------------------------------------------- adapter actions

Tick ==
  /\ now < MaxTime
  /\ now' = now + 1
  /\ lastOp' = Op("tick", "", "", NoOut)
  /\ UNCHANGED <<campaignStates, lifeVars, finalizeLog, pollVars, pledged, calls, sideVars>>

GetOnchainCampaignState(address, goalAmountWei, deadlineAt) ==
  LET cs == getOrCreateState(campaignStates, address)
  IN /\ campaignStates' = cs
     /\ lastOp' = [Op("getState", address, "ok",
                        OnchainCampaignState(cs[address], goalAmountWei, deadlineAt))
                     EXCEPT !.goal = goalAmountWei, !.deadline = deadlineAt]
     /\ UNCHANGED <<now, lifeVars, finalizeLog, pollVars, pledged, calls, sideVars>>

\* A faulty variant: the ledger is looked up with the address as it was given.
GetUserContributionAsGiven(address, userWalletAddress) ==
  LET cs == getOrCreateState(campaignStates, address)
  IN /\ campaignStates' = cs
     /\ lastOp' = [Op("getContribution", address, "ok",
                        [NoOut EXCEPT !.totalRaisedWei =
                           ContributionOf(cs[address], userWalletAddress)])
                     EXCEPT !.wallet = userWalletAddress]
     /\ UNCHANGED <<now, lifeVars, finalizeLog, pollVars, pledged, calls, sideVars>>

GetUserContribution(address, userWalletAddress) ==
  LET cs == getOrCreateState(campaignStates, address)
  IN /\ campaignStates' = cs
     /\ lastOp' = [Op("getContribution", address, "ok",
                        [NoOut EXCEPT !.totalRaisedWei =
                           ContributionOf(cs[address], ToLowerCase(userWalletAddress))])
                     EXCEPT !.wallet = userWalletAddress]
     /\ UNCHANGED <<now, lifeVars, finalizeLog, pollVars, pledged, calls, sideVars>>

\* A faulty variant: the ledger is written before the amount and the deadline are
\* checked, so a rejected pledge leaves its amount behind.
PledgeChecksAfter(address, fromAddress, amountWei, minPledgeWei, deadlineAt) ==
  LET res == PledgeResult(amountWei, minPledgeWei, deadlineAt)
      cs == getOrCreateState(campaignStates, address)
      next == PledgeState(cs[address], fromAddress, amountWei)
  IN /\ lastOp' = Op("pledge", address, res, NoOut)
     /\ RaisedInAll([cs EXCEPT ![address] = next]) <= MaxTotal
     /\ next.backerCount <= MaxBackerCount
     /\ campaignStates' = [cs EXCEPT ![address] = next]
     /\ pledged' = IF res = "ok" THEN Accepted(address, fromAddress, amountWei) ELSE pledged
     /\ UNCHANGED <<now, lifeVars, finalizeLog, pollVars, calls, sideVars>>

Pledge(address, fromAddress, amountWei, minPledgeWei, deadlineAt) ==
  LET res == PledgeResult(amountWei, minPledgeWei, deadlineAt)
      cs == getOrCreateState(campaignStates, address)
      next == PledgeState(cs[address], fromAddress, amountWei)
  IN /\ lastOp' = Op("pledge", address, res, NoOut)
     /\ IF res = "ok"
        THEN /\ RaisedInAll([cs EXCEPT ![address] = next]) <= MaxTotal
             /\ next.backerCount <= MaxBackerCount
             /\ campaignStates' = [cs EXCEPT ![address] = next]
             /\ pledged' = Accepted(address, fromAddress, amountWei)
        ELSE UNCHANGED <<campaignStates, pledged>>
     /\ UNCHANGED <<now, lifeVars, finalizeLog, pollVars, calls, sideVars>>

\* A faulty variant: the refund is paid out of the ledger.
ClaimRefundPays(address, fromAddress) ==
  LET cs == getOrCreateState(campaignStates, address)
      key == ToLowerCase(fromAddress)
      paid == ContributionOf(cs[address], key)
  IN /\ lastOp' = Op("claimRefund", address, "ok", NoOut)
     /\ campaignStates' =
          [cs EXCEPT ![address] =
             [@ EXCEPT !.totalRaisedWei = @ - paid,
                       !.contributions =
                          [k \in DOMAIN cs[address].contributions |->
                             IF k = key THEN 0 ELSE cs[address].contributions[k]]]]
     /\ UNCHANGED <<now, lifeVars, finalizeLog, pollVars, pledged, calls, sideVars>>

ClaimRefund(address, fromAddress) ==
  /\ lastOp' = Op("claimRefund", address, "NotImplemented", NoOut)
  /\ UNCHANGED <<now, campaignStates, lifeVars, finalizeLog, pollVars, pledged, calls, sideVars>>

\* A faulty variant: the already-finalized check is missing.
FinalizeUnchecked(address, fromAddress) ==
  LET cs == getOrCreateState(campaignStates, address)
  IN /\ lastOp' = Op("finalize", address, "ok", NoOut)
     /\ campaignStates' = [cs EXCEPT ![address] = FinalizeState(cs[address])]
     /\ finalizeLog' = LogFinalize(cs, address, TRUE)
     /\ UNCHANGED <<now, lifeVars, pollVars, pledged, calls, sideVars>>

Finalize(address, fromAddress) ==
  LET cs == getOrCreateState(campaignStates, address)
  IN /\ IF cs[address].isFinalized
        THEN /\ lastOp' = Op("finalize", address, "AlreadyFinalized", NoOut)
             /\ campaignStates' = cs
        ELSE /\ lastOp' = Op("finalize", address, "ok", NoOut)
             /\ campaignStates' = [cs EXCEPT ![address] = FinalizeState(cs[address])]
     /\ finalizeLog' = LogFinalize(cs, address, ~cs[address].isFinalized)
     /\ UNCHANGED <<now, lifeVars, pollVars, pledged, calls, sideVars>>

\* ------------------------------------------------------------- service and page actions

\* The primary wallet listMyWallets gives for a user (linkWallet stores lowercase).
PrimaryWalletOf(u) == IF u = "alice" THEN "0xa" ELSE "0xb"

\* Row-level policy for SELECT: published, or the requester is the creator.
CanSelect(u) ==
  campaign.exists /\ (campaign.is_published \/ campaign.creator_user_id = u)

\* Row-level policy for UPDATE: the requester is the creator.
CanUpdate(u) == campaign.exists /\ u # NoUser /\ campaign.creator_user_id = u

\* fetchData run by user u over adapter state cs: the page and the adapter state after it.
\* chainState is fetched only for a published campaign with an address, and is left
\* as it was otherwise.
FetchResult(cs, u) ==
  LET campaignData == IF CanSelect(u) THEN campaign ELSE NoCampaign
      address == campaignData.campaign_deposit_address
      query == campaignData.exists /\ campaignData.is_published /\ address # ""
      cs2 == IF query THEN getOrCreateState(cs, address) ELSE cs
  IN [page |-> [campaign |-> campaignData,
                chainState |-> IF query
                               THEN OnchainCampaignState(cs2[address],
                                      campaignData.goal_amount_wei, campaignData.deadline_at)
                               ELSE page.chainState],
      cs |-> cs2]

isCreator == page.campaign.exists /\ profile # NoUser
             /\ page.campaign.creator_user_id = profile

canPledge == page.campaign.is_published /\ page.chainState.status = "LIVE"
             /\ profile # NoUser

canFinalize == isCreator /\ page.chainState.status = "SUCCESSFUL"
               /\ ~page.chainState.isFinalized

\* onAuthStateChange: the session changes and the page fetches again.
SignIn(u) ==
  /\ profile # u
  /\ profile' = u
  /\ page' = FetchResult(campaignStates, u).page
  /\ campaignStates' = FetchResult(campaignStates, u).cs
  /\ lastOp' = Op("fetchData", "", "", NoOut)
  /\ UNCHANGED <<now, campaign, finalizeLog, pollVars, pledged, calls, sideVars>>

SignOut ==
  /\ profile # NoUser
  /\ profile' = NoUser
  /\ page' = FetchResult(campaignStates, NoUser).page
  /\ campaignStates' = FetchResult(campaignStates, NoUser).cs
  /\ lastOp' = Op("fetchData", "", "", NoOut)
  /\ UNCHANGED <<now, campaign, finalizeLog, pollVars, pledged, calls, sideVars>>

FetchData ==
  /\ page' = FetchResult(campaignStates, profile).page
  /\ campaignStates' = FetchResult(campaignStates, profile).cs
  /\ lastOp' = Op("fetchData", "", "", NoOut)
  /\ UNCHANGED <<now, campaign, profile, finalizeLog, pollVars, pledged, calls, sideVars>>

\* createDraftCampaign: the row is inserted with the placeholder address and, when
\* the derivation and the update succeed, given the derived address.
CreateDraftCampaign(goalAmountWei, minPledgeWei, deadlineAt, derived) ==
  /\ profile # NoUser
  /\ ~campaign.exists
  /\ campaignIndexSeq < MaxCampaigns
  /\ campaignIndexSeq' = campaignIndexSeq + 1
  /\ campaign' = [exists |-> TRUE, campaign_index |-> campaignIndexSeq + 1,
                  creator_user_id |-> profile,
                  campaign_deposit_address |->
                    IF derived THEN DerivedAddress ELSE PlaceholderAddress,
                  currency_address |-> DefaultCurrency,
                  goal_amount_wei |-> goalAmountWei, min_pledge_wei |-> minPledgeWei,
                  deadline_at |-> deadlineAt, is_published |-> FALSE]
  /\ lastOp' = Op("createDraftCampaign", "", "ok", NoOut)
  /\ UNCHANGED <<now, campaignStates, profile, page, finalizeLog, pollVars, pledged, calls,
                 draft, walletVars, fetchVars>>

PublishCampaign ==
  /\ CanUpdate(profile)
  /\ campaign' = [campaign EXCEPT !.is_published = TRUE]
  /\ lastOp' = Op("publishCampaign", "", "ok", NoOut)
  /\ UNCHANGED <<now, campaignStates, profile, page, finalizeLog, pollVars, pledged, calls, sideVars>>

\* A faulty variant: the deadline is moved to the next tick of the clock.
CloseCampaignEarlyNextTick ==
  /\ CanUpdate(profile)
  /\ campaign' = [campaign EXCEPT !.deadline_at = now + 1]
  /\ lastOp' = Op("closeCampaignEarly", "", "ok", NoOut)
  /\ UNCHANGED <<now, campaignStates, profile, page, finalizeLog, pollVars, pledged, calls, sideVars>>

CloseCampaignEarly ==
  /\ CanUpdate(profile)
  /\ campaign' = [campaign EXCEPT !.deadline_at = now]
  /\ lastOp' = Op("closeCampaignEarly", "", "ok", NoOut)
  /\ UNCHANGED <<now, campaignStates, profile, page, finalizeLog, pollVars, pledged, calls, sideVars>>

\* handlePledge: the pledge with the page's snapshot of min pledge and deadline,
\* then fetchData when it was accepted.
HandlePledge(amountWei) ==
  LET address == page.campaign.campaign_deposit_address
      res == PledgeResult(amountWei, page.campaign.min_pledge_wei, page.campaign.deadline_at)
      cs == getOrCreateState(campaignStates, address)
      next == PledgeState(cs[address], PrimaryWalletOf(profile), amountWei)
      after == [cs EXCEPT ![address] = next]
  IN /\ canPledge /\ address # ""
     /\ lastOp' = Op("pledge", address, res, NoOut)
     /\ IF res = "ok"
        THEN /\ RaisedInAll(after) <= MaxTotal
             /\ next.backerCount <= MaxBackerCount
             /\ campaignStates' = FetchResult(after, profile).cs
             /\ page' = FetchResult(after, profile).page
             /\ pledged' = Accepted(address, PrimaryWalletOf(profile), amountWei)
        ELSE UNCHANGED <<campaignStates, page, pledged>>
     /\ UNCHANGED <<now, campaign, profile, finalizeLog, pollVars, calls, sideVars>>

\* handleFinalize, reachable through the button shown when canFinalize: finalize for
\* the page's address, then fetchData when it succeeded.
HandleFinalize ==
  LET address == page.campaign.campaign_deposit_address
      cs == getOrCreateState(campaignStates, address)
      ok == ~cs[address].isFinalized
      after == [cs EXCEPT ![address] = FinalizeState(cs[address])]
  IN /\ canFinalize /\ address # ""
     /\ lastOp' = Op("finalize", address, IF ok THEN "ok" ELSE "AlreadyFinalized", NoOut)
     /\ finalizeLog' = LogFinalize(cs, address, ok)
     /\ IF ok
        THEN /\ campaignStates' = FetchResult(after, profile).cs
             /\ page' = FetchResult(after, profile).page
        ELSE /\ campaignStates' = cs
             /\ UNCHANGED page
     /\ UNCHANGED <<now, campaign, profile, pollVars, pledged, calls, sideVars>>

InitChain ==
  /\ now = 0
  /\ campaignStates = [a \in {} |-> NewMockCampaignState]
  /\ lastOp = Op("init", "", "", NoOut)

InitLife ==
  /\ campaign = NoCampaign
  /\ profile = NoUser
  /\ page = NoPage
  /\ finalizeLog = NoFinalize

InitPoll ==
  /\ isPolling = FALSE
  /\ previousBalanceRef = 0
  /\ walletBalance = 0
  /\ polls = 0
  /\ samples = << >>
  /\ toasts = << >>
  /\ refreshes = 0
  /\ failedAt = NoAmount

InitRow ==
  /\ campaignIndexSeq = 0
  /\ draft = NoDraft

InitWallet ==
  /\ wallets = << >>
  /\ primaryCalls = [tab \in Tabs |-> NoCall]

InitFetch ==
  /\ usdcBalance = 0
  /\ increases = 0
  /\ inflight = NoFetches
  /\ pollingRef = FALSE
  /\ timers = 0
  /\ effectDeps = NoDeps

AllAddresses == Addresses \cup {PlaceholderAddress}

InitHist ==
  pledged = [k \in AllAddresses \X Accounts |-> 0]

InitCalls ==
  calls = [c \in Callers |-> NoPledgeCall]

Init ==
  InitChain /\ InitLife /\ InitPoll /\ InitHist /\ InitCalls /\ InitRow /\ InitWallet /\ InitFetch

Next ==
  \/ Tick
  \/ \E a \in Addresses, g \in Goals, d \in Deadlines : GetOnchainCampaignState(a, g, d)
  \/ \E a \in Addresses, w \in WalletAddresses : GetUserContribution(a, w)
  \/ \E a \in Addresses, w \in WalletAddresses, amt \in Amounts,
        m \in MinPledges, d \in Deadlines : Pledge(a, w, amt, m, d)
  \/ \E a \in Addresses, w \in WalletAddresses : ClaimRefund(a, w)
  \/ \E a \in Addresses, w \in WalletAddresses : Finalize(a, w)

Spec == Init /\ [][Next]_vars

\* The campaign's life: the service operations on the row, the page's handlers, and
\* finalize as the service offers it (any address, any caller).
DepositAddresses == {DerivedAddress, PlaceholderAddress}

NextLife ==
  \/ Tick
  \/ \E u \in Users : SignIn(u)
  \/ SignOut
  \/ FetchData
  \/ \E g \in Goals, m \in MinPledges, d \in Deadlines, derived \in BOOLEAN :
        CreateDraftCampaign(g, m, d, derived)
  \/ PublishCampaign
  \/ CloseCampaignEarly
  \/ \E amt \in Amounts : HandlePledge(amt)
  \/ HandleFinalize
  \/ \E a \in DepositAddresses, w \in WalletAddresses : Finalize(a, w)

SpecLife == Init /\ [][NextLife]_vars

\* ------------------------------------------------------------- pledge calls in flight

\* The raised total stored for an address; zero for an address not seen yet.
RaisedAt(address) ==
  IF address \in DOMAIN campaignStates THEN campaignStates[address].totalRaisedWei ELSE 0

\* pledge is called: the call enters simulateLatency.  `seen` is history: the raised
\* total of the address when the call was made; a call that has returned keeps
\* its result and `seen`.
PledgeCall(c, fromAddress, amountWei, minPledgeWei, deadlineAt) ==
  /\ calls[c].pc # "latency"
  /\ calls' = [calls EXCEPT ![c] = [pc |-> "latency", fromAddress |-> fromAddress,
                                    amountWei |-> amountWei, minPledgeWei |-> minPledgeWei,
                                    deadlineAt |-> deadlineAt, result |-> "",
                                    seen |-> RaisedAt(PledgeAddress)]]
  /\ lastOp' = Op("pledgeCall", PledgeAddress, "", NoOut)
  /\ UNCHANGED <<now, campaignStates, lifeVars, finalizeLog, pollVars, pledged, sideVars>>

\* A faulty variant: the raised total is read before the latency and written after
\* it, so the pledge of a call that completed in between is overwritten.
PledgeReturnStale(c) ==
  LET call == calls[c]
      res == PledgeResult(call.amountWei, call.minPledgeWei, call.deadlineAt)
      cs == getOrCreateState(campaignStates, PledgeAddress)
      next == [PledgeState(cs[PledgeAddress], call.fromAddress, call.amountWei)
                 EXCEPT !.totalRaisedWei = call.seen + call.amountWei]
  IN /\ call.pc = "latency"
     /\ calls' = [calls EXCEPT ![c] = [NoPledgeCall EXCEPT !.pc = "done", !.result = res,
                                                          !.seen = call.seen]]
     /\ lastOp' = Op("pledge", PledgeAddress, res, NoOut)
     /\ IF res = "ok"
        THEN /\ RaisedInAll([cs EXCEPT ![PledgeAddress] = next]) <= MaxTotal
             /\ next.backerCount <= MaxBackerCount
             /\ campaignStates' = [cs EXCEPT ![PledgeAddress] = next]
             /\ pledged' = Accepted(PledgeAddress, call.fromAddress, call.amountWei)
        ELSE UNCHANGED <<campaignStates, pledged>>
     /\ UNCHANGED <<now, lifeVars, finalizeLog, pollVars, sideVars>>

\* The latency of a call is over: the rest of pledge runs without a further await,
\* reading the clock, checking, and updating the stored state.
PledgeReturn(c) ==
  LET call == calls[c]
      res == PledgeResult(call.amountWei, call.minPledgeWei, call.deadlineAt)
      cs == getOrCreateState(campaignStates, PledgeAddress)
      next == PledgeState(cs[PledgeAddress], call.fromAddress, call.amountWei)
  IN /\ call.pc = "latency"
     /\ calls' = [calls EXCEPT ![c] = [NoPledgeCall EXCEPT !.pc = "done", !.result = res,
                                                          !.seen = call.seen]]
     /\ lastOp' = Op("pledge", PledgeAddress, res, NoOut)
     /\ IF res = "ok"
        THEN /\ RaisedInAll([cs EXCEPT ![PledgeAddress] = next]) <= MaxTotal
             /\ next.backerCount <= MaxBackerCount
             /\ campaignStates' = [cs EXCEPT ![PledgeAddress] = next]
             /\ pledged' = Accepted(PledgeAddress, call.fromAddress, call.amountWei)
        ELSE UNCHANGED <<campaignStates, pledged>>
     /\ UNCHANGED <<now, lifeVars, finalizeLog, pollVars, sideVars>>

NextPledge ==
  \/ Tick
  \/ \E c \in Callers, w \in WalletAddresses, amt \in Amounts, m \in MinPledges,
        d \in Deadlines : PledgeCall(c, w, amt, m, d)
  \/ \E c \in Callers : PledgeReturn(c)

SpecPledge == Init /\ [][NextPledge]_vars

\* ------------------------------------------------------------- balance polling

\* The polling effect starts: the campaign shown is published and LIVE.
StartPolling ==
  /\ ~isPolling
  /\ isPolling' = TRUE
  /\ UNCHANGED <<previousBalanceRef, walletBalance, polls, samples, toasts, refreshes, failedAt>>
  /\ UNCHANGED <<chainVars, lifeVars, finalizeLog, pledged, calls, sideVars>>

\* Whether pollBalance notifies for a fetched balance, given the stored one.
PledgeDetected(newBalance, prevBalance) ==
  newBalance > prevBalance /\ prevBalance > 0

\* pollBalance, the balance fetch resolving with `balance`.
PollBalance(balance) ==
  LET prevBalance == previousBalanceRef
      detected == PledgeDetected(balance, prevBalance)
  IN /\ isPolling /\ polls < MaxPolls
     /\ walletBalance' = balance
     /\ toasts' = IF detected
                  THEN Append(toasts, [at |-> Len(samples) + 1, delta |-> balance - prevBalance])
                  ELSE toasts
     /\ refreshes' = IF detected THEN refreshes + 1 ELSE refreshes
     /\ previousBalanceRef' = balance
     /\ samples' = Append(samples, balance)
     /\ polls' = polls + 1
     /\ UNCHANGED <<isPolling, failedAt, chainVars, lifeVars, finalizeLog, pledged, calls, sideVars>>

\* pollBalance, the balance fetch throwing: the error is logged and nothing is stored.
PollBalanceFails ==
  /\ isPolling /\ polls < MaxPolls
  /\ polls' = polls + 1
  /\ failedAt' = Len(samples)
  /\ UNCHANGED <<isPolling, previousBalanceRef, walletBalance, samples, toasts, refreshes>>
  /\ UNCHANGED <<chainVars, lifeVars, finalizeLog, pledged, calls, sideVars>>

NextPoll ==
  \/ StartPolling
  \/ \E b \in Balances : PollBalance(b)
  \/ PollBalanceFails

SpecPoll == Init /\ [][NextPoll]_vars

\* ------------------------------------------------------------- balance polling, fetches in flight

\* The number of fetches in flight.
InFlight == SumOver(inflight, FetchValues)

\* pollBalance up to its await: a fetch is sent.
StartFetch == [inflight EXCEPT ![NoAmount] = @ + 1]

\* A transfer of USDC to the deposit address.
Deposit(amount) ==
  /\ usdcBalance + amount <= MaxBalance
  /\ usdcBalance' = usdcBalance + amount
  /\ increases' = increases + 1
  /\ UNCHANGED <<inflight, pollingRef, timers, effectDeps>>
  /\ UNCHANGED <<chainVars, lifeVars, finalizeLog, pollVars, pledged, calls, rowVars, walletVars>>

\* The polling effect runs with its condition true: isPolling is set, pollBalance
\* is called at once and the interval timer is set.
ActivatePolling ==
  /\ ~pollingRef
  /\ polls < MaxFetches
  /\ isPolling' = TRUE
  /\ pollingRef' = TRUE
  /\ timers' = timers + 1
  /\ inflight' = StartFetch
  /\ polls' = polls + 1
  /\ UNCHANGED <<previousBalanceRef, walletBalance, samples, toasts, refreshes, failedAt>>
  /\ UNCHANGED <<usdcBalance, increases, effectDeps>>
  /\ UNCHANGED <<chainVars, lifeVars, finalizeLog, pledged, calls, rowVars, walletVars>>

\* The effect's cleanup: the interval is cleared and isPolling reset.  The fetches
\* in flight and previousBalanceRef are left as they are.
DeactivatePolling ==
  /\ pollingRef
  /\ pollingRef' = FALSE
  /\ timers' = timers - 1
  /\ isPolling' = FALSE
  /\ UNCHANGED <<previousBalanceRef, walletBalance, polls, samples, toasts, refreshes, failedAt>>
  /\ UNCHANGED <<usdcBalance, increases, inflight, effectDeps>>
  /\ UNCHANGED <<chainVars, lifeVars, finalizeLog, pledged, calls, rowVars, walletVars>>

\* The interval fires: pollBalance is called, whatever is in flight.
IntervalFires ==
  /\ pollingRef
  /\ polls < MaxFetches
  /\ inflight' = StartFetch
  /\ polls' = polls + 1
  /\ UNCHANGED <<isPolling, previousBalanceRef, walletBalance, samples, toasts, refreshes,
                 failedAt>>
  /\ UNCHANGED <<usdcBalance, increases, pollingRef, timers, effectDeps>>
  /\ UNCHANGED <<chainVars, lifeVars, finalizeLog, pledged, calls, rowVars, walletVars>>

\* get-usdc-balance reads the balance of the address for a fetch.
ReadBalance ==
  /\ inflight[NoAmount] > 0
  /\ inflight' = [inflight EXCEPT ![NoAmount] = @ - 1, ![usdcBalance] = @ + 1]
  /\ UNCHANGED <<usdcBalance, increases, pollingRef, timers, effectDeps>>
  /\ UNCHANGED <<chainVars, lifeVars, finalizeLog, pollVars, pledged, calls, rowVars, walletVars>>

\* pollBalance after its await, the fetch having resolved with `balance`: the
\* balance is shown, compared with the stored one and stored.
FetchResolves(balance) ==
  LET prevBalance == previousBalanceRef
      detected == PledgeDetected(balance, prevBalance)
  IN /\ inflight[balance] > 0
     /\ inflight' = [inflight EXCEPT ![balance] = @ - 1]
     /\ walletBalance' = balance
     /\ toasts' = IF detected
                  THEN Append(toasts, [at |-> Len(samples) + 1,
                                       delta |-> balance - prevBalance])
                  ELSE toasts
     /\ refreshes' = IF detected THEN refreshes + 1 ELSE refreshes
     /\ previousBalanceRef' = balance
     /\ samples' = Append(samples, balance)
     /\ UNCHANGED <<isPolling, polls, failedAt, usdcBalance, increases, pollingRef, timers,
                    effectDeps>>
     /\ UNCHANGED <<chainVars, lifeVars, finalizeLog, pledged, calls, rowVars, walletVars>>

\* A faulty variant: the catch block clears the stored balance.
FetchFailsClearsSnapshot(value) ==
  /\ inflight[value] > 0
  /\ inflight' = [inflight EXCEPT ![value] = @ - 1]
  /\ failedAt' = Len(samples)
  /\ previousBalanceRef' = 0
  /\ UNCHANGED <<isPolling, walletBalance, polls, samples, toasts, refreshes>>
  /\ UNCHANGED <<usdcBalance, increases, pollingRef, timers, effectDeps>>
  /\ UNCHANGED <<chainVars, lifeVars, finalizeLog, pledged, calls, rowVars, walletVars>>

\* pollBalance after its await, the fetch having thrown: the error is logged.
FetchFails(value) ==
  /\ inflight[value] > 0
  /\ inflight' = [inflight EXCEPT ![value] = @ - 1]
  /\ failedAt' = Len(samples)
  /\ UNCHANGED <<isPolling, previousBalanceRef, walletBalance, polls, samples, toasts, refreshes>>
  /\ UNCHANGED <<usdcBalance, increases, pollingRef, timers, effectDeps>>
  /\ UNCHANGED <<chainVars, lifeVars, finalizeLog, pledged, calls, rowVars, walletVars>>

NextFetch ==
  \/ \E amount \in 1..MaxBalance : Deposit(amount)
  \/ ActivatePolling
  \/ DeactivatePolling
  \/ IntervalFires
  \/ ReadBalance
  \/ \E b \in Balances : FetchResolves(b)
  \/ \E v \in FetchValues : FetchFails(v)

SpecFetch == Init /\ [][NextFetch]_vars

\* ------------------------------------------------------------- the polling effect of the page

\* The condition under which the effect starts polling.
EffectCondition ==
  /\ page.campaign.is_published
  /\ page.campaign.campaign_deposit_address # ""
  /\ page.chainState.status = "LIVE"

\* The effect's dependencies: the three values of its condition, and pollBalance,
\* which is a new function when the address or fetchData (so the session) changes.
EffectDepsNow ==
  <<page.campaign.is_published, page.campaign.campaign_deposit_address,
    page.chainState.status, profile>>

\* A render has changed the dependencies and the effect has not run for them yet.
EffectPending == effectDeps # EffectDepsNow

\* The interval timers left by the cleanup of the effect's previous run: it clears
\* the timer pollingRef holds.
TimersAfterCleanup == IF pollingRef THEN timers - 1 ELSE timers

\* A faulty variant: the effect sets its timer without the previous run's cleanup.
RunEffectNoCleanup ==
  /\ EffectPending
  /\ effectDeps' = EffectDepsNow
  /\ IF EffectCondition
     THEN /\ polls < MaxFetches
          /\ isPolling' = TRUE /\ pollingRef' = TRUE /\ timers' = timers + 1
          /\ inflight' = StartFetch /\ polls' = polls + 1
     ELSE /\ isPolling' = FALSE /\ pollingRef' = FALSE /\ timers' = timers
          /\ UNCHANGED <<inflight, polls>>
  /\ UNCHANGED <<previousBalanceRef, walletBalance, samples, toasts, refreshes, failedAt>>
  /\ UNCHANGED <<usdcBalance, increases>>
  /\ UNCHANGED <<chainVars, lifeVars, finalizeLog, pledged, calls, rowVars, walletVars>>

\* The effect runs after a render that changed its dependencies (or after the
\* mount): first the cleanup of its previous run, then its body.
RunEffect ==
  /\ EffectPending
  /\ effectDeps' = EffectDepsNow
  /\ IF EffectCondition
     THEN /\ polls < MaxFetches
          /\ isPolling' = TRUE /\ pollingRef' = TRUE /\ timers' = TimersAfterCleanup + 1
          /\ inflight' = StartFetch /\ polls' = polls + 1
     ELSE /\ isPolling' = FALSE /\ pollingRef' = FALSE /\ timers' = TimersAfterCleanup
          /\ UNCHANGED <<inflight, polls>>
  /\ UNCHANGED <<previousBalanceRef, walletBalance, samples, toasts, refreshes, failedAt>>
  /\ UNCHANGED <<usdcBalance, increases>>
  /\ UNCHANGED <<chainVars, lifeVars, finalizeLog, pledged, calls, rowVars, walletVars>>

\* The page is unmounted: the cleanup runs, and the state and the refs of the
\* component are gone (a later mount starts from their initial values).
Unmount ==
  /\ effectDeps # NoDeps /\ ~EffectPending
  /\ effectDeps' = NoDeps
  /\ isPolling' = FALSE /\ pollingRef' = FALSE /\ timers' = TimersAfterCleanup
  /\ page' = NoPage
  /\ previousBalanceRef' = 0 /\ walletBalance' = 0
  /\ UNCHANGED <<polls, samples, toasts, refreshes, failedAt, inflight>>
  /\ UNCHANGED <<usdcBalance, increases>>
  /\ UNCHANGED <<chainVars, campaign, profile, finalizeLog, pledged, calls, rowVars, walletVars>>

\* The page of one creator with its polling effect: the handlers run between the
\* effect's runs; the service operations on the row come from the dashboard.
NextView ==
  \/ Tick
  \/ RunEffect
  \/ Unmount
  \/ ~EffectPending /\ SignIn("alice")
  \/ ~EffectPending /\ SignOut
  \/ ~EffectPending /\ FetchData
  \/ ~EffectPending /\ HandlePledge(1)
  \/ ~EffectPending /\ HandleFinalize
  \/ \E d \in Deadlines : CreateDraftCampaign(1, 0, d, TRUE)
  \/ PublishCampaign
  \/ CloseCampaignEarly

SpecView == Init /\ [][NextView]_vars

\* ------------------------------------------------------------- the campaign row

\* mnemonicToAccount(mnemonic, {addressIndex: campaign_index}).address
deriveCampaignWallet(campaign_index) ==
  IF campaign_index = 1 THEN DerivedAddress ELSE "0xd2"

\* Partial<CampaignDraftInput>, the fields that are columns of the economic terms
\* and the deadline.
Patches ==
  [goalAmountWei : Goals \cup {NoAmount}, minPledgeWei : MinPledges \cup {NoAmount},
   deadlineAt : Deadlines \cup {NoAmount}, currencyAddress : Currencies \cup {NoAddress}]

\* A faulty variant: the patch also writes the deposit address column.
ApplyPatchResetsAddress(row, patch) ==
  [row EXCEPT
     !.campaign_deposit_address = PlaceholderAddress,
     !.goal_amount_wei = IF patch.goalAmountWei # NoAmount THEN patch.goalAmountWei ELSE @,
     !.min_pledge_wei = IF patch.minPledgeWei # NoAmount THEN patch.minPledgeWei ELSE @,
     !.deadline_at = IF patch.deadlineAt # NoAmount THEN patch.deadlineAt ELSE @,
     !.currency_address =
        IF patch.currencyAddress # NoAddress THEN patch.currencyAddress ELSE @]

\* updateData of updateDraftCampaign applied to the row.
ApplyPatch(row, patch) ==
  [row EXCEPT
     !.goal_amount_wei = IF patch.goalAmountWei # NoAmount THEN patch.goalAmountWei ELSE @,
     !.min_pledge_wei = IF patch.minPledgeWei # NoAmount THEN patch.minPledgeWei ELSE @,
     !.deadline_at = IF patch.deadlineAt # NoAmount THEN patch.deadlineAt ELSE @,
     !.currency_address =
        IF patch.currencyAddress # NoAddress THEN patch.currencyAddress ELSE @]

\* A faulty variant: the policy lets the creator delete a published campaign.
CanDeleteOwn(u) ==
  campaign.exists /\ u # NoUser /\ campaign.creator_user_id = u

\* Row-level policy for DELETE: the requester is the creator and the row is unpublished.
CanDelete(u) ==
  campaign.exists /\ u # NoUser /\ campaign.creator_user_id = u /\ ~campaign.is_published

\* onAuthStateChange while the campaign page is not mounted: only the session changes.
SetSession(u) ==
  /\ profile # u
  /\ profile' = u
  /\ lastOp' = Op("setSession", "", "", NoOut)
  /\ UNCHANGED <<now, campaignStates, campaign, page, finalizeLog, pollVars, pledged, calls, sideVars>>

\* createDraftCampaign, step 1: the row is inserted with the placeholder address.
\* The slug is unique, so the insert fails while a row with it exists.
CreateDraftInsert(goalAmountWei, minPledgeWei, deadlineAt, currencyAddress) ==
  /\ profile # NoUser
  /\ draft.pc = "idle"
  /\ campaignIndexSeq < MaxCampaigns
  /\ IF campaign.exists
     THEN /\ lastOp' = Op("createDraftCampaign", "", "Error", NoOut)
          /\ UNCHANGED <<campaign, campaignIndexSeq, draft>>
     ELSE /\ campaignIndexSeq' = campaignIndexSeq + 1
          /\ campaign' = [exists |-> TRUE, campaign_index |-> campaignIndexSeq + 1,
                          creator_user_id |-> profile,
                          campaign_deposit_address |-> PlaceholderAddress,
                          currency_address |-> currencyAddress,
                          goal_amount_wei |-> goalAmountWei,
                          min_pledge_wei |-> minPledgeWei,
                          deadline_at |-> deadlineAt, is_published |-> FALSE]
          /\ draft' = [draft EXCEPT !.pc = "derive", !.index = campaignIndexSeq + 1]
          /\ lastOp' = Op("createDraftCampaign", "", "inserted", NoOut)
  /\ UNCHANGED <<now, campaignStates, profile, page, finalizeLog, pollVars, pledged, calls,
                 walletVars, fetchVars>>

\* A faulty variant: a failed derivation deletes the row it inserted.
DeriveWalletRollsBack(ok) ==
  /\ draft.pc = "derive"
  /\ draft' = IF ok
              THEN [draft EXCEPT !.pc = "update",
                                 !.address = deriveCampaignWallet(draft.index),
                                 !.derived = @ \cup {draft.index}]
              ELSE [draft EXCEPT !.pc = "idle", !.index = 0]
  /\ campaign' = IF ~ok /\ campaign.campaign_index = draft.index THEN NoCampaign ELSE campaign
  /\ lastOp' = IF ok THEN Op("createDraftCampaign", "", "derived", NoOut)
                     ELSE Op("createDraftCampaign", PlaceholderAddress, "ok", NoOut)
  /\ UNCHANGED <<now, campaignStates, profile, page, finalizeLog, pollVars, pledged, calls,
                 campaignIndexSeq, walletVars, fetchVars>>

\* createDraftCampaign, step 2: the edge function derives the wallet, or fails and
\* the call returns the row as inserted (lastOp.address is the address returned).
DeriveWallet(ok) ==
  /\ draft.pc = "derive"
  /\ draft' = IF ok
              THEN [draft EXCEPT !.pc = "update",
                                 !.address = deriveCampaignWallet(draft.index),
                                 !.derived = @ \cup {draft.index}]
              ELSE [draft EXCEPT !.pc = "idle", !.index = 0]
  /\ lastOp' = IF ok THEN Op("createDraftCampaign", "", "derived", NoOut)
                     ELSE Op("createDraftCampaign", PlaceholderAddress, "ok", NoOut)
  /\ UNCHANGED <<now, campaignStates, lifeVars, finalizeLog, pollVars, pledged, calls,
                 campaignIndexSeq, walletVars, fetchVars>>

\* createDraftCampaign, step 3: the row with the call's id is given the derived
\* address and the call returns the updated row; an update that fails or finds no
\* row is logged and the call returns the row as inserted.
UpdateDepositAddress(ok) ==
  /\ draft.pc = "update"
  /\ campaign' = IF ok /\ CanUpdate(profile) /\ campaign.campaign_index = draft.index
                 THEN [campaign EXCEPT !.campaign_deposit_address = draft.address]
                 ELSE campaign
  /\ draft' = [draft EXCEPT !.pc = "idle", !.index = 0, !.address = ""]
  /\ lastOp' = Op("createDraftCampaign",
                  IF ok /\ CanUpdate(profile) /\ campaign.campaign_index = draft.index
                  THEN draft.address ELSE PlaceholderAddress,
                  "ok", NoOut)
  /\ UNCHANGED <<now, campaignStates, profile, page, finalizeLog, pollVars, pledged, calls,
                 campaignIndexSeq, walletVars, fetchVars>>

\* updateDraftCampaign: the update is filtered by is_published = false and by the
\* UPDATE policy; .single() fails when no row was updated.
UpdateDraftCampaign(patch) ==
  /\ IF CanUpdate(profile) /\ ~campaign.is_published
     THEN /\ campaign' = ApplyPatch(campaign, patch)
          /\ lastOp' = Op("updateDraftCampaign", "", "ok", NoOut)
     ELSE /\ campaign' = campaign
          /\ lastOp' = Op("updateDraftCampaign", "", "Error", NoOut)
  /\ UNCHANGED <<now, campaignStates, profile, page, finalizeLog, pollVars, pledged, calls, sideVars>>

\* deleteCampaign: the delete is filtered by the DELETE policy; deleting no row is
\* not an error.
DeleteCampaign ==
  /\ campaign' = IF CanDelete(profile) THEN NoCampaign ELSE campaign
  /\ lastOp' = Op("deleteCampaign", "", "ok", NoOut)
  /\ UNCHANGED <<now, campaignStates, profile, page, finalizeLog, pollVars, pledged, calls, sideVars>>

NextRow ==
  \/ Tick
  \/ \E u \in Users \cup {NoUser} : SetSession(u)
  \/ \E g \in Goals, m \in MinPledges, d \in Deadlines, c \in Currencies :
        CreateDraftInsert(g, m, d, c)
  \/ \E ok \in BOOLEAN : DeriveWallet(ok)
  \/ \E ok \in BOOLEAN : UpdateDepositAddress(ok)
  \/ \E patch \in Patches : UpdateDraftCampaign(patch)
  \/ PublishCampaign
  \/ CloseCampaignEarly
  \/ DeleteCampaign

SpecRow == Init /\ [][NextRow]_vars

\* ------------------------------------------------------------- the status of the campaign

\* Patches of the deadline or of the goal alone.
TermPatches ==
  {patch \in Patches : /\ patch.minPledgeWei = NoAmount /\ patch.currencyAddress = NoAddress
                       /\ (patch.goalAmountWei = NoAmount) # (patch.deadlineAt = NoAmount)}

\* The deposit address of the row, if there is a row.
CampaignAddress == IF campaign.exists THEN {campaign.campaign_deposit_address} ELSE {}

\* The service operations on the row of one creator, together with the pledges and
\* the finalize calls the pages make for the row's deposit address.
NextStatus ==
  \/ Tick
  \/ SetSession("alice")
  \/ \E g \in Goals, d \in Deadlines : CreateDraftInsert(g, 0, d, DefaultCurrency)
  \/ \E ok \in BOOLEAN : DeriveWallet(ok)
  \/ \E ok \in BOOLEAN : UpdateDepositAddress(ok)
  \/ \E patch \in TermPatches : UpdateDraftCampaign(patch)
  \/ PublishCampaign
  \/ CloseCampaignEarly
  \/ DeleteCampaign
  \/ \E a \in CampaignAddress, d \in Deadlines : Pledge(a, "0xa", 1, 0, d)
  \/ \E a \in CampaignAddress : Finalize(a, "0xa")

SpecStatus == Init /\ [][NextStatus]_vars

\* ------------------------------------------------------------- the wallets table

WalletIds == 1..MaxWallets

\* linkWallet: a row is inserted for the session's user, is_primary defaulting to false.
LinkWallet ==
  /\ profile # NoUser
  /\ Len(wallets) < MaxWallets
  /\ wallets' = Append(wallets, [user_id |-> profile, is_primary |-> FALSE])
  /\ lastOp' = Op("linkWallet", "", "ok", NoOut)
  /\ UNCHANGED <<now, campaignStates, lifeVars, finalizeLog, pollVars, pledged, calls,
                 primaryCalls, rowVars, fetchVars>>

\* setPrimaryWallet, first update: every wallet of the session's user is unset.
SetPrimaryUnset(tab, walletId) ==
  /\ profile # NoUser
  /\ primaryCalls[tab].pc = "idle"
  /\ wallets' = [i \in DOMAIN wallets |->
                   IF wallets[i].user_id = profile
                   THEN [wallets[i] EXCEPT !.is_primary = FALSE] ELSE wallets[i]]
  /\ primaryCalls' = [primaryCalls EXCEPT
                        ![tab] = [pc |-> "set", user |-> profile, walletId |-> walletId]]
  /\ lastOp' = Op("setPrimaryWallet", "", "unset", NoOut)
  /\ UNCHANGED <<now, campaignStates, lifeVars, finalizeLog, pollVars, pledged, calls,
                 rowVars, fetchVars>>

\* setPrimaryWallet, second update: the wallet with the id is set, when the UPDATE
\* policy (the wallet is the user's own) lets the row through; or the update fails.
SetPrimarySet(tab, ok) ==
  LET call == primaryCalls[tab]
  IN /\ call.pc = "set"
     /\ wallets' = [i \in DOMAIN wallets |->
                      IF ok /\ i = call.walletId /\ wallets[i].user_id = call.user
                      THEN [wallets[i] EXCEPT !.is_primary = TRUE] ELSE wallets[i]]
     /\ primaryCalls' = [primaryCalls EXCEPT ![tab] = NoCall]
     /\ lastOp' = Op("setPrimaryWallet", "", IF ok THEN "ok" ELSE "Error", NoOut)
     /\ UNCHANGED <<now, campaignStates, lifeVars, finalizeLog, pollVars, pledged, calls,
                    rowVars, fetchVars>>

NextWallet ==
  \/ \E u \in Users \cup {NoUser} : SetSession(u)
  \/ LinkWallet
  \/ \E tab \in Tabs, id \in WalletIds : SetPrimaryUnset(tab, id)
  \/ \E tab \in Tabs, ok \in BOOLEAN : SetPrimarySet(tab, ok)

SpecWallet == Init /\ [][NextWallet]_vars

\* ------------------------------------------------------------- properties of the adapter

\* The stored state of the address the last call was about.
LastState == campaignStates[lastOp.address]

\* sum(ledger.values())
LedgerSum(state) == SumOver(state.contributions, DOMAIN state.contributions)

\* count(entries where value > 0)
NonzeroEntries(state) ==
  Cardinality({k \in DOMAIN state.contributions : state.contributions[k] > 0})

\* C1: whenever the finalized flag of an address is set, getState reports FINALIZED
\* for it, whatever the raised total, the goal and the deadline are.
C1_FinalizationDominance ==
  /\ lastOp.op = "getState" /\ LastState.isFinalized => lastOp.out.status = "FINALIZED"
  /\ \A a \in DOMAIN campaignStates, g \in Goals, d \in Deadlines :
       campaignStates[a].isFinalized =>
         OnchainCampaignState(campaignStates[a], g, d).status = "FINALIZED"

\* C1 witness: a finalized address queried before the deadline with nothing raised.
C1_Witness ==
  /\ lastOp.op = "getState" /\ LastState.isFinalized
  /\ now < lastOp.deadline /\ LastState.totalRaisedWei = 0
  /\ lastOp.out.status = "FINALIZED"

\* C2 (as claimed): every getState with now < deadline reports LIVE.
C2_LiveBeforeDeadline ==
  lastOp.op = "getState" /\ now < lastOp.deadline => lastOp.out.status = "LIVE"

\* C3: for a non-finalized address queried with now >= deadline, getState reports
\* SUCCESSFUL when totalRaised >= goal (raised = goal included) and FAILED otherwise.
C3_AfterDeadline ==
  lastOp.op = "getState" /\ ~LastState.isFinalized /\ now >= lastOp.deadline =>
    lastOp.out.status =
      (IF LastState.totalRaisedWei >= lastOp.goal THEN "SUCCESSFUL" ELSE "FAILED")

\* C3 witness: the boundary, raised = goal at the deadline, reported SUCCESSFUL.
C3_Witness ==
  /\ lastOp.op = "getState" /\ ~LastState.isFinalized /\ now >= lastOp.deadline
  /\ LastState.totalRaisedWei = lastOp.goal
  /\ lastOp.out.status = "SUCCESSFUL"

\* C4 (as claimed): after any sequence of pledges, totalRaised is the sum of the
\* ledger entries and backerCount the number of entries greater than zero.
C4_LedgerInvariant ==
  \A a \in DOMAIN campaignStates :
    /\ campaignStates[a].totalRaisedWei = LedgerSum(campaignStates[a])
    /\ campaignStates[a].backerCount = NonzeroEntries(campaignStates[a])

\* C5: a finalize of a non-finalized address succeeds and sets only the flag; a
\* finalize of a finalized address fails with AlreadyFinalized and changes nothing.
C5_FinalizeTwice ==
  [][lastOp'.op = "finalize" =>
       LET a == lastOp'.address
           cs == getOrCreateState(campaignStates, a)
       IN IF cs[a].isFinalized
          THEN lastOp'.result = "AlreadyFinalized" /\ campaignStates' = campaignStates
          ELSE /\ lastOp'.result = "ok"
               /\ campaignStates' = [cs EXCEPT ![a].isFinalized = TRUE]]_vars

\* C5 witness: the second finalize of an address has failed.
C5_Witness ==
  /\ lastOp.op = "finalize" /\ lastOp.result = "AlreadyFinalized"
  /\ LastState.isFinalized /\ LastState.totalRaisedWei > 0

\* C6: once the flag of an address is set it stays set over every step, and a
\* status query for the address then answers FINALIZED.
C6_Irreversible ==
  [][\A a \in DOMAIN campaignStates :
       campaignStates[a].isFinalized =>
         /\ a \in DOMAIN campaignStates'
         /\ campaignStates'[a].isFinalized
         /\ (lastOp'.op = "getState" /\ lastOp'.address = a =>
               lastOp'.out.status = "FINALIZED")]_vars

\* C6 witness: a finalized address took a pledge afterwards and is queried at the
\* end of time.
C6_Witness ==
  /\ lastOp.op = "getState" /\ lastOp.out.status = "FINALIZED"
  /\ LastState.totalRaisedWei > 0 /\ now = MaxTime

\* C9: claimRefund fails with NotImplemented and leaves every stored state as it was.
C9_RefundNotImplemented ==
  [][lastOp'.op = "claimRefund" =>
       lastOp'.result = "NotImplemented" /\ campaignStates' = campaignStates]_vars

\* C9 witness: a refund was asked for a contributor's nonzero pledge after the deadline.
C9_Witness ==
  /\ lastOp.op = "claimRefund" /\ lastOp.result = "NotImplemented"
  /\ lastOp.address \in DOMAIN campaignStates
  /\ LastState.totalRaisedWei > 0 /\ now = MaxTime

\* What the account has pledged to the address in all, over every account.
TotalPledged(address) == SumOver(pledged, {<<address, x>> : x \in Accounts})

\* C18: getUserContribution answers, without an error, the sum of the accepted
\* pledges the account of the wallet made to the address, whatever the case of the
\* wallet's hex digits, and zero when there were none; and once the pledges to an
\* address reach the goal, a non-finalized address is SUCCESSFUL after the deadline.
C18_ContributionIsSum ==
  /\ lastOp.op = "getContribution" =>
       /\ lastOp.result = "ok"
       /\ lastOp.out.totalRaisedWei = pledged[<<lastOp.address, AccountOf(lastOp.wallet)>>]
  /\ lastOp.op = "getState" /\ ~LastState.isFinalized /\ now >= lastOp.deadline
       /\ TotalPledged(lastOp.address) >= lastOp.goal
       => lastOp.out.status = "SUCCESSFUL"

\* C18 witness: the account has pledged twice, and its contribution is asked for
\* with the wallet in upper case after the deadline.
C18_Witness ==
  /\ lastOp.op = "getContribution" /\ lastOp.wallet = "0xA"
  /\ lastOp.out.totalRaisedWei = MaxTotal
  /\ pledged[<<lastOp.address, "a">>] = MaxTotal
  /\ now = MaxTime

\* The stored state of an address as every operation sees it: an address without
\* an entry is given the fresh state before it is read.
StateView(cs, address) ==
  IF address \in DOMAIN cs THEN cs[address] ELSE NewMockCampaignState

\* C19: a getState call, for a known or a never seen address and any goal and
\* deadline, leaves the ledger, raised total, backer count and finalized flag of
\* every address as they were, so the answers of later queries are unchanged.
C19_GetStateNeverMutates ==
  [][lastOp'.op = "getState" =>
       \A a \in Addresses :
         StateView(campaignStates', a) = StateView(campaignStates, a)]_vars

\* C19 witness: getState was called for an address with no pledge while the other
\* address holds pledges and is finalized.
C19_Witness ==
  /\ lastOp.op = "getState" /\ LastState = NewMockCampaignState
  /\ \E a \in DOMAIN campaignStates :
       campaignStates[a].totalRaisedWei > 0 /\ campaignStates[a].isFinalized

\* C28: a pledge that is rejected, for an amount below the minimum or at or after
\* the deadline, leaves every stored state as it was: the ledger entry, the raised
\* total and the backer count of the address are those before the call.
C28_RejectedPledgeNoEffect ==
  [][lastOp'.op = "pledge" /\ lastOp'.result # "ok" =>
       /\ lastOp'.result \in {"BelowMinPledge", "DeadlinePassed"}
       /\ campaignStates' = campaignStates
       /\ pledged' = pledged]_vars

\* C28 witness: a pledge was rejected at the deadline for an address that holds
\* pledges of two backers.
C28_Witness ==
  /\ lastOp.op = "pledge" /\ lastOp.result = "DeadlinePassed"
  /\ lastOp.address \in DOMAIN campaignStates
  /\ LastState.totalRaisedWei = MaxTotal /\ LastState.backerCount = MaxBackerCount

\* ------------------------------------------------------------- properties of the campaign's life

\* C7 (as claimed): a finalize succeeds on a campaign's address only when the campaign
\* is published and its derived status at that moment is SUCCESSFUL.
C7_FinalizeOnlyFromSuccessful ==
  finalizeLog.done => finalizeLog.published /\ finalizeLog.status = "SUCCESSFUL"

\* C8 (as claimed): the finalized flag of a campaign's address is set only by a
\* finalize that the campaign's creator issued.
C8_OnlyCreatorFinalizes ==
  finalizeLog.done => finalizeLog.by = finalizeLog.creator

\* ------------------------------------------------------------- properties of the campaign row

\* The step leaves the same campaign in the table.
SameCampaign ==
  campaign.exists /\ campaign'.exists /\ campaign'.campaign_index = campaign.campaign_index

\* C12 (as claimed): a publish of a campaign whose deposit address is the placeholder
\* fails with InvalidInput and leaves it unpublished; a publish of a published
\* campaign changes nothing.
C12_PublishNeedsAddress ==
  [][lastOp'.op = "publishCampaign" =>
       /\ (campaign.campaign_deposit_address = PlaceholderAddress /\ ~campaign.is_published
             => lastOp'.result = "InvalidInput" /\ campaign' = campaign)
       /\ (campaign.is_published => campaign' = campaign)]_vars

\* C13: the deposit address of a campaign is the placeholder until the derivation for
\* its index has succeeded, it is then the derived address, and once it is not the
\* placeholder no step of create, update draft, publish or close early changes it.
C13_DepositAddressStable ==
  /\ [](campaign.exists /\ campaign.campaign_deposit_address # PlaceholderAddress =>
          /\ campaign.campaign_index \in draft.derived
          /\ campaign.campaign_deposit_address =
               deriveCampaignWallet(campaign.campaign_index))
  /\ [][SameCampaign /\ campaign.campaign_deposit_address # PlaceholderAddress =>
          campaign'.campaign_deposit_address = campaign.campaign_deposit_address]_vars

\* C13 witness: the second campaign of the table has its derived address, was
\* published and has just been closed early.
C13_Witness ==
  /\ campaign.exists /\ campaign.is_published
  /\ campaign.campaign_index = MaxCampaigns
  /\ campaign.campaign_deposit_address = deriveCampaignWallet(MaxCampaigns)
  /\ lastOp.op = "closeCampaignEarly" /\ draft.pc = "idle"

\* C15 (as claimed): no step sets deadline_at of a published campaign to a later value.
C15_DeadlineOnlyEarlier ==
  [][SameCampaign /\ campaign.is_published =>
       campaign'.deadline_at <= campaign.deadline_at]_vars

\* C16 (as claimed): no step changes the goal, the minimum pledge, the currency or
\* the deposit address of a published campaign, and updateDraftCampaign on a
\* published campaign fails and changes nothing.
C16_TermsImmutable ==
  [][campaign.exists /\ campaign.is_published =>
       /\ campaign'.exists
       /\ campaign'.goal_amount_wei = campaign.goal_amount_wei
       /\ campaign'.min_pledge_wei = campaign.min_pledge_wei
       /\ campaign'.currency_address = campaign.currency_address
       /\ campaign'.campaign_deposit_address = campaign.campaign_deposit_address
       /\ (lastOp'.op = "updateDraftCampaign" =>
             lastOp'.result = "Error" /\ campaign' = campaign)]_vars

\* C17: a published campaign stays in the table over every step, and a delete
\* removes a campaign only when the requester is its creator and it is unpublished.
C17_PublishedNeverDeleted ==
  [][/\ (campaign.exists /\ campaign.is_published => SameCampaign)
     /\ (lastOp'.op = "deleteCampaign" /\ campaign.exists /\ ~campaign'.exists =>
           profile = campaign.creator_user_id /\ ~campaign.is_published)
     /\ (lastOp'.op = "deleteCampaign" /\ campaign.exists /\ campaign.is_published =>
           campaign' = campaign)]_vars

\* C17 witness: the creator asked to delete the published second campaign, which
\* is still in place.
C17_Witness ==
  /\ lastOp.op = "deleteCampaign"
  /\ campaign.exists /\ campaign.is_published
  /\ campaign.campaign_index = MaxCampaigns
  /\ profile = campaign.creator_user_id

\* ------------------------------------------------------------- properties of the wallets table

\* The wallets of a user that are marked primary.
PrimaryWallets(u) ==
  {i \in DOMAIN wallets : wallets[i].user_id = u /\ wallets[i].is_primary}

\* C14 (as claimed): in every state, the intermediate states of setPrimaryWallet
\* included, at most one wallet of a user has is_primary = true.
C14_OnePrimaryWallet ==
  \A u \in Users : Cardinality(PrimaryWallets(u)) <= 1

\* ------------------------------------------------------------- properties of the polling

\* The notifications the claim expects for a sequence of samples: one at every
\* sample after the first that is strictly greater than the sample before it.
RECURSIVE ExpectedToasts(_, _)
ExpectedToasts(s, i) ==
  IF i > Len(s) THEN << >>
  ELSE IF i > 1 /\ s[i] > s[i - 1]
       THEN <<[at |-> i, delta |-> s[i] - s[i - 1]]>> \o ExpectedToasts(s, i + 1)
       ELSE ExpectedToasts(s, i + 1)

\* C10 (as claimed): a notification and a refresh are emitted at a poll exactly when
\* a sample was observed before and the new sample is strictly greater than it.
C10_PollingDelta ==
  toasts = ExpectedToasts(samples, 1) /\ refreshes = Len(toasts)

\* C11 (as claimed): over every interleaving of interval ticks, polls on
\* activation and fetches in flight, the notifications emitted never outnumber the
\* strict increases of the balance of the polled address.
C11_AtMostOncePerIncrease ==
  Len(toasts) <= increases

\* C20 (as claimed): a poll is started only after the fetch of the poll before it
\* has completed, so at most one fetch is in flight.
C20_PollsNeverOverlap ==
  InFlight <= 1

\* C21: the result of a poll in flight when the view is deactivated is discarded:
\* while polling is inactive no step changes the displayed balance or the stored
\* snapshot, emits a notification or triggers a refresh.
C21_StoppedPollHasNoEffect ==
  [][~pollingRef =>
       /\ walletBalance' = walletBalance
       /\ previousBalanceRef' = previousBalanceRef
       /\ toasts' = toasts
       /\ refreshes' = refreshes]_vars

\* C22: every activation of polling starts with the snapshot of the last observed
\* balance reset to empty (zero), so the first poll after an activation compares
\* with nothing that was observed before it.
C22_ActivationResetsSnapshot ==
  [][~pollingRef /\ pollingRef' => previousBalanceRef' = 0]_vars

\* The balance the last successful poll observed; zero before the first.
LastObserved == IF samples = << >> THEN 0 ELSE samples[Len(samples)]

\* A step in which a fetch leaves flight.
FetchLeaves == \E v \in FetchValues : inflight' = [inflight EXCEPT ![v] = @ - 1]

CreateDraftFailureSwallowed ==
  /\ draft.pc \in {"derive", "update"} /\ draft'.pc = "idle"
  /\ lastOp'.address = PlaceholderAddress

\* C25: when the derivation or the address update of createDraftCampaign fails, the
\* call still returns successfully, with the row as inserted; the step changes
\* nothing in the table (nothing is rolled back), and the call's row, if no other
\* call removed it, is there with the placeholder address, a draft if it was one.
C25_DerivationFailureSwallowed ==
  [][CreateDraftFailureSwallowed =>
       /\ lastOp'.op = "createDraftCampaign" /\ lastOp'.result = "ok"
       /\ campaign' = campaign
       /\ campaignIndexSeq' = campaignIndexSeq
       /\ (campaign.exists /\ campaign.campaign_index = draft.index =>
             /\ campaign'.exists
             /\ campaign'.campaign_deposit_address = PlaceholderAddress)]_vars

\* C25 witness: a createDraftCampaign call returned after its derivation failed,
\* and the row it inserted is an unpublished draft with the placeholder address.
C25_Witness ==
  /\ lastOp.op = "createDraftCampaign" /\ lastOp.result = "ok"
  /\ lastOp.address = PlaceholderAddress
  /\ draft.pc = "idle" /\ draft.derived = {}
  /\ campaign.exists /\ ~campaign.is_published
  /\ campaign.campaign_index = campaignIndexSeq
  /\ campaign.campaign_deposit_address = PlaceholderAddress

\* The raised total the adapter holds for the deposit address of the stored row.
RaisedOfCampaign == StateView(campaignStates, campaign.campaign_deposit_address).totalRaisedWei

\* The status a query computes for the stored row: getOnchainCampaignState with the
\* row's address, goal and deadline, as fetchData calls it.
CampaignStatus ==
  LET state == StateView(campaignStates, campaign.campaign_deposit_address)
  IN deriveStatus(state.totalRaisedWei, campaign.goal_amount_wei, campaign.deadline_at,
                  state.isFinalized)

\* C29: the raised total of a published campaign does not change at or after the
\* deadline stored in its row, also when the deadline was moved by a close early
\* while a backer's page still holds the old one; so a campaign that a query
\* reported FAILED is not reported SUCCESSFUL later.
C29_NoPledgeAfterStoredDeadline ==
  [][campaign.exists /\ campaign.is_published /\ SameCampaign
       /\ campaign'.campaign_deposit_address = campaign.campaign_deposit_address
       /\ now >= campaign.deadline_at =>
          /\ RaisedOfCampaign' = RaisedOfCampaign
          /\ (CampaignStatus = "FAILED" => CampaignStatus' # "SUCCESSFUL")]_vars

\* C27: no contribution is lost when pledge calls to one deposit address overlap:
\* whatever the order in which their latencies end, the raised total of the address
\* is the sum of the accepted amounts and each ledger entry is the sum of the
\* amounts accepted from its account (at every moment, so also after all calls
\* have completed).
C27_NoContributionLost ==
  LET state == StateView(campaignStates, PledgeAddress)
  IN /\ state.totalRaisedWei = TotalPledged(PledgeAddress)
     /\ \A x \in Accounts :
          ContributionOf(state, "0x" \o x) = pledged[<<PledgeAddress, x>>]

\* C27 witness: two calls that were both made when the total was zero, from two
\* accounts, have both been accepted, and the total is the sum of their amounts.
C27_Witness ==
  /\ \A c \in Callers :
        calls[c].pc = "done" /\ calls[c].result = "ok" /\ calls[c].seen = 0
  /\ pledged[<<PledgeAddress, "a">>] = 1 /\ pledged[<<PledgeAddress, "b">>] = 1
  /\ RaisedAt(PledgeAddress) = 2

\* The campaign is published and the clock has reached the deadline of its row.
Ended == campaign.exists /\ campaign.is_published /\ now >= campaign.deadline_at

\* C26: a close early of a published campaign stores the time of the close as
\* deadline_at; from then on the campaign stays published with a deadline that is
\* not in the future, and every status computed for it is FINALIZED if it was
\* finalized, else SUCCESSFUL if the raised total has reached the goal, else
\* FAILED: never LIVE.
C26_ClosedEarlyNeverLive ==
  /\ [][lastOp'.op = "closeCampaignEarly" /\ campaign.is_published =>
          /\ campaign'.deadline_at = now
          /\ campaign' = [campaign EXCEPT !.deadline_at = now]]_vars
  /\ [][Ended => Ended' /\ SameCampaign]_vars
  /\ [](Ended =>
          LET state == StateView(campaignStates, campaign.campaign_deposit_address)
          IN CampaignStatus =
               IF state.isFinalized THEN "FINALIZED"
               ELSE IF state.totalRaisedWei >= campaign.goal_amount_wei THEN "SUCCESSFUL"
               ELSE "FAILED")

\* C26 witness: a published campaign that was LIVE (every deadline a creator gives
\* is after time 0) was closed at time 0 with its goal reached, and is SUCCESSFUL.
C26_Witness ==
  /\ lastOp.op = "closeCampaignEarly" /\ now = 0
  /\ campaign.exists /\ campaign.is_published /\ campaign.deadline_at = 0
  /\ RaisedOfCampaign >= campaign.goal_amount_wei
  /\ CampaignStatus = "SUCCESSFUL"

\* C30: once the status computed for a published campaign is SUCCESSFUL, FAILED or
\* FINALIZED, no operation of the service and no passage of time makes a later
\* computation for it return LIVE.
C30_StatusNeverBackToLive ==
  [][campaign.exists /\ campaign.is_published /\ CampaignStatus # "LIVE" /\ SameCampaign
       => CampaignStatus' # "LIVE"]_vars

\* C23: the page has at most one interval timer, the one pollingRef holds; once
\* the effect has run for what the page displays, a timer is set only if the
\* displayed campaign is published and its displayed status is LIVE; and a run of
\* the effect that sets a timer leaves no earlier timer behind.
C23_OnePollingTimer ==
  /\ [](timers <= 1)
  /\ [](timers = IF pollingRef THEN 1 ELSE 0)
  /\ [](~EffectPending /\ timers > 0 =>
          page.campaign.is_published /\ page.chainState.status = "LIVE")
  /\ [][effectDeps' # effectDeps /\ pollingRef' => timers' = 1]_vars

\* C23 witness: the effect has set a timer for the second time, after the timer of
\* its earlier run was cleared, and exactly one timer is set.
C23_Witness ==
  /\ polls >= 2 /\ inflight[NoAmount] = polls
  /\ timers = 1 /\ pollingRef /\ isPolling
  /\ ~EffectPending /\ EffectCondition

====
